---- MODULE Spec2Model ----
(***************************************************************************)
(* Model of the student-club front end: the profile/portfolio form in its  *)
(* two source variants and the login page.                                 *)
(*                                                                         *)
(*   variant "part_000"            src/unnamed/part_000 (image preview,    *)
(*                                 upper-casing transform, looser rules)   *)
(*   variant "StudentPortfolioForm" src/src/components/                    *)
(*                                 StudentPortfolioForm.tsx (maxSize,      *)
(*                                 semester pattern, stricter rules)       *)
(*                                                                         *)
(* Text typed into the enrollment, faculty and phone inputs is a sequence  *)
(* of characters (one-character strings; "sz" stands for U+00DF, whose     *)
(* upper case is the two letters SS).  Text whose validators only look at  *)
(* length or at the whole value is a TLA+ string.                          *)
(***************************************************************************)
EXTENDS Integers, Sequences, FiniteSets, TLC

VARIABLES
    variant,      \* which source file's form is mounted
    values,       \* react-hook-form's form values (the document)
    fields,       \* per field-array manager: the rows its hook renders
    errors,       \* formState.errors: set of <<path, message>>
    isSubmitted,  \* formState.isSubmitted
    preview,      \* part_000's preview state (object URL or null)
    last,         \* the last UI event and, for a submit, what it did
    edits,        \* number of user edit events so far (bounded)
    nextId,       \* the next row identity generateId hands out
    objectUrls,   \* how many object URLs URL.createObjectURL has made
    login         \* the login page: its form, route, request and alerts

vars == <<variant, values, fields, errors, isSubmitted, preview, last, edits,
          nextId, objectUrls, login>>

-----------------------------------------------------------------------------
(* Bounds of the exploration *)

MaxEdits == 2
MaxIdEdits == 1
MaxRows == 2
MaxRequests == 2
MaxLateEdits == 1

-----------------------------------------------------------------------------
(* Characters and JavaScript's String.prototype.toUpperCase *)

UpperLetters == {"A","B","C","D","E","F","G","H","I","J","K","L","M",
                 "N","O","P","Q","R","S","T","U","V","W","X","Y","Z"}
LowerLetters == {"a","b","c","d","e","f","g","h","i","j","k","l","m",
                 "n","o","p","q","r","s","t","u","v","w","x","y","z"}
Digits == {"0","1","2","3","4","5","6","7","8","9"}

UpperSeq == <<"A","B","C","D","E","F","G","H","I","J","K","L","M",
              "N","O","P","Q","R","S","T","U","V","W","X","Y","Z">>
LowerSeq == <<"a","b","c","d","e","f","g","h","i","j","k","l","m",
              "n","o","p","q","r","s","t","u","v","w","x","y","z">>

\* (variant of UpperChar: the case of a letter is swapped)
UpperCharSwappingCase(c) ==
    IF c \in LowerLetters
    THEN <<UpperSeq[CHOOSE i \in 1..26 : LowerSeq[i] = c]>>
    ELSE IF c \in UpperLetters
    THEN <<LowerSeq[CHOOSE i \in 1..26 : UpperSeq[i] = c]>>
    ELSE IF c = "sz" THEN <<"S", "S">>
    ELSE <<c>>

\* toUpperCase of one character: a sequence, because U+00DF becomes "SS".
UpperChar(c) ==
    IF c \in LowerLetters
    THEN <<UpperSeq[CHOOSE i \in 1..26 : LowerSeq[i] = c]>>
    ELSE IF c = "sz" THEN <<"S", "S">>
    ELSE <<c>>

RECURSIVE toUpperCase(_)
toUpperCase(s) ==
    IF s = <<>> THEN <<>> ELSE UpperChar(Head(s)) \o toUpperCase(Tail(s))

AllIn(s, from, to, class) == \A i \in from..to : s[i] \in class

-----------------------------------------------------------------------------
(* The regular expressions of the schemas *)

\* /^[A-Z]{2}[0-9]{4}$/
EnrollRegex(s) ==
    /\ Len(s) = 6
    /\ AllIn(s, 1, 2, UpperLetters)
    /\ AllIn(s, 3, 6, Digits)

\* /^[0-9]{2}[A-Z]{5}[0-9]{3}$/
FacultyRegex(s) ==
    /\ Len(s) = 10
    /\ AllIn(s, 1, 2, Digits)
    /\ AllIn(s, 3, 7, UpperLetters)
    /\ AllIn(s, 8, 10, Digits)

\* /^\d{10}$/
TenDigits(s) == Len(s) = 10 /\ AllIn(s, 1, 10, Digits)

\* (\+?\d{1,3}[- ]?) : an optional plus, one to three digits, an optional
\* hyphen or space
CountryCode(p) ==
    /\ Len(p) >= 1
    /\ LET a == IF p[1] = "+" THEN 1 ELSE 0
           b == IF p[Len(p)] \in {"-", " "} THEN 1 ELSE 0
       IN  /\ Len(p) - a - b \in 1..3
           /\ AllIn(p, a + 1, Len(p) - b, Digits)

\* /^(\+?\d{1,3}[- ]?)?\d{10}$/
PhoneRegexLoose(s) ==
    /\ Len(s) >= 10
    /\ TenDigits(SubSeq(s, Len(s) - 9, Len(s)))
    /\ \/ Len(s) = 10
       \/ CountryCode(SubSeq(s, 1, Len(s) - 10))

BSc == "B.Sc.(Hons.) Comp. Appls."
MCA == "MCA"
MSc == "M.Sc. Cyber Security"

RomanToEight == {"I", "II", "III", "IV", "V", "VI", "VII", "VIII"}
RomanToFour == {"I", "II", "III", "IV"}

\* /^(?:(B\.Sc\.\(Hons\.\) Comp\. Appls\.: (I|...|VIII))|(MCA|M\.Sc\. Cyber Security: (I|II|III|IV)))$/
\* The language of the pattern, alternative by alternative.  In the second
\* group the alternation is between the bare text MCA and the whole of
\* "M.Sc. Cyber Security: <numeral>": the ": (I|II|III|IV)" tail belongs to
\* the M.Sc. branch alone.
SemesterLanguage ==
       {BSc \o ": " \o r : r \in RomanToEight}
  \cup {MCA}
  \cup {MSc \o ": " \o r : r \in RomanToFour}

SemesterRegex(s) == s \in SemesterLanguage

-----------------------------------------------------------------------------
(* Values *)

PreviewVariant == "part_000"
StrictVariant == "StudentPortfolioForm"
Variants == {PreviewVariant, StrictVariant}

Undefined == "<undefined>"      \* JavaScript's undefined, where a string may stand
EmptyArray == "<[]>"            \* the array literal [] of appendProject's default

\* What the profilePicture form value can be: undefined, a File (part_000's
\* setValue) or the input's FileList (StudentPortfolioForm's field.onChange).
NoPicture == [kind |-> "undefined", files |-> <<>>]
AsFile(f) == [kind |-> "File", files |-> <<f>>]
AsFileList(fs) == [kind |-> "FileList", files |-> fs]

Jpeg3MB == [size |-> 3 * 1024 * 1024, type |-> "image/jpeg"]
Png1MB == [size |-> 1024 * 1024, type |-> "image/png"]
Gif1MB == [size |-> 1024 * 1024, type |-> "image/gif"]
Files == {Jpeg3MB, Png1MB, Gif1MB}

RECURSIVE Rep(_)
Rep(n) ==
    IF n = 0 THEN ""
    ELSE IF n % 2 = 0 THEN LET half == Rep(n \div 2) IN half \o half
    ELSE "x" \o Rep(n - 1)

-----------------------------------------------------------------------------
(* zod: the checks the library applies, in the order the schema chains them. *)
(* Every operator yields the set of issues <<path, message>> that            *)
(* zodResolver keeps: the first issue of each path.                          *)

\* A field path: a scalar field (row 0), a key of it, or a key of the i-th row
\* of a list.  PathName is the dotted name react-hook-form uses.
FieldPath(name) == [field |-> name, row |-> 0, key |-> ""]
RowPath(list, i, key) == [field |-> list, row |-> i, key |-> key]
PathName(p) ==
    IF p.row = 0
    THEN IF p.key = "" THEN p.field ELSE p.field \o "." \o p.key
    ELSE IF p.key = "" THEN p.field \o "." \o ToString(p.row - 1)
    ELSE p.field \o "." \o ToString(p.row - 1) \o "." \o p.key

Issue(path, msg) == {<<path, msg>>}
NoIssue == {}

\* The library validators, on the inputs the model offers.
ValidDates == {"2004-02-29"}
ValidEmails == {"asha@amu.ac.in"}
ValidUrls == {"https://github.com/asha", "https://linkedin.com/in/asha"}
IsDate(s) == s \in ValidDates
IsEmail(s) == s \in ValidEmails
IsUrl(s) == s \in ValidUrls

FluencyEnum == {"Beginner", "Intermediate", "Advanced", "Expert"}
CourseEnum == {BSc, MCA, MSc}

\* z.string().nonempty(msg)
NonEmptyString(path, v, msg) ==
    IF v = Undefined THEN Issue(path, "Required")
    ELSE IF Len(v) < 1 THEN Issue(path, msg)
    ELSE NoIssue

\* z.string().min(n, msg)
MinString(path, v, n, msg) ==
    IF v = Undefined THEN Issue(path, "Required")
    ELSE IF Len(v) < n THEN Issue(path, msg)
    ELSE NoIssue

\* z.string().url()
UrlString(path, v) ==
    IF v = Undefined THEN Issue(path, "Required")
    ELSE IF ~IsUrl(v) THEN Issue(path, "Invalid url")
    ELSE NoIssue

\* an enum of fluency levels
FluencyIssue(path, v) ==
    IF v = Undefined THEN Issue(path, "Required")
    ELSE IF v \notin FluencyEnum THEN Issue(path, "Invalid enum value")
    ELSE NoIssue

\* about: z.string().max(200, ..).nonempty(..)
aboutIssue(v) ==
    IF v = Undefined THEN Issue(FieldPath("about"), "Required")
    ELSE IF Len(v) > 200 THEN Issue(FieldPath("about"), "Not more than 200 characters")
    ELSE IF Len(v) < 1 THEN Issue(FieldPath("about"), "This field is required")
    ELSE NoIssue

\* dob: z.string().date('Invalid date') followed by min(1)/nonempty
dobIssue(v) ==
    IF v = Undefined THEN Issue(FieldPath("dob"), "Required")
    ELSE IF ~IsDate(v) THEN Issue(FieldPath("dob"), "Invalid date")
    ELSE IF Len(v) < 1 THEN Issue(FieldPath("dob"), "This field is required")
    ELSE NoIssue

\* enrollNo.  part_000: string, transform to upper case, refine by the
\* pattern.  StudentPortfolioForm: the pattern on the raw string, then nonempty.
enrollNoIssue(vr, v) ==
    IF vr = PreviewVariant
    THEN IF EnrollRegex(toUpperCase(v)) THEN NoIssue
         ELSE Issue(FieldPath("enrollNo"), "Invalid Enrollment number")
    ELSE IF ~EnrollRegex(v) THEN Issue(FieldPath("enrollNo"), "Invalid Enrollment number")
         ELSE IF Len(v) < 1 THEN Issue(FieldPath("enrollNo"), "This field is required")
         ELSE NoIssue

facultyNoIssue(vr, v) ==
    IF vr = PreviewVariant
    THEN IF FacultyRegex(toUpperCase(v)) THEN NoIssue
         ELSE Issue(FieldPath("facultyNo"), "Invalid Faculty number")
    ELSE IF ~FacultyRegex(v) THEN Issue(FieldPath("facultyNo"), "Invalid Faculty number")
         ELSE IF Len(v) < 1 THEN Issue(FieldPath("facultyNo"), "This field is required")
         ELSE NoIssue

\* (variant of courseIssue: the placeholder is not refused)
courseIssueAcceptingPlaceholder(vr, v) ==
    IF v = Undefined THEN Issue(FieldPath("course"), "Required")
    ELSE IF vr = PreviewVariant
    THEN IF v \in CourseEnum THEN NoIssue
         ELSE Issue(FieldPath("course"), "Invalid enum value")
    ELSE IF v \notin CourseEnum \cup {"SELECT"}
         THEN Issue(FieldPath("course"), "Invalid enum value")
         ELSE NoIssue

\* course.  part_000: CourseEnum.  StudentPortfolioForm: an enum that also
\* lists 'SELECT', refined to refuse it.
courseIssue(vr, v) ==
    IF v = Undefined THEN Issue(FieldPath("course"), "Required")
    ELSE IF vr = PreviewVariant
    THEN IF v \in CourseEnum THEN NoIssue
         ELSE Issue(FieldPath("course"), "Invalid enum value")
    ELSE IF v \notin CourseEnum \cup {"SELECT"}
         THEN Issue(FieldPath("course"), "Invalid enum value")
         ELSE IF v = "SELECT"
         THEN Issue(FieldPath("course"), "You must select a valid course")
         ELSE NoIssue

\* semester.  part_000: nonempty.  StudentPortfolioForm: the pattern, then
\* nonempty.  Neither schema reads the course here: the object schema has no
\* refinement over the pair.
semesterIssue(vr, v) ==
    IF v = Undefined THEN Issue(FieldPath("semester"), "Required")
    ELSE IF vr = PreviewVariant
    THEN IF Len(v) < 1 THEN Issue(FieldPath("semester"), "Semester is Required")
         ELSE NoIssue
    ELSE IF ~SemesterRegex(v)
         THEN Issue(FieldPath("semester"), "Invalid semester for the selected course")
         ELSE IF Len(v) < 1 THEN Issue(FieldPath("semester"), "Semester is Required")
         ELSE NoIssue

\* email: z.string().email().nonempty(..)
emailIssue(v) ==
    IF v = Undefined THEN Issue(FieldPath("email"), "Required")
    ELSE IF ~IsEmail(v) THEN Issue(FieldPath("email"), "Invalid email")
    ELSE IF Len(v) < 1 THEN Issue(FieldPath("email"), "This field is required")
    ELSE NoIssue

\* phone.  part_000: refine by the pattern with the optional country code.
\* StudentPortfolioForm: exactly ten digits, then nonempty.
phoneIssue(vr, v) ==
    IF vr = PreviewVariant
    THEN IF PhoneRegexLoose(v) THEN NoIssue
         ELSE Issue(FieldPath("phone"), "Invalid phone number")
    ELSE IF ~TenDigits(v) THEN Issue(FieldPath("phone"), "Invalid")
         ELSE IF Len(v) < 1 THEN Issue(FieldPath("phone"), "This field is required")
         ELSE NoIssue

maxSize == 2 * 1024 * 1024
fileFormat == {"image/jpeg", "image/png"}

\* The chain z.custom<FileList>(..).refine(..).refine(..).refine(..) applied
\* to a value at `path`.  A failed custom check is fatal: the refinements
\* after it do not run.  Each refinement adds its own issue; the resolver
\* keeps the first of the path.
FileListChain(path, v) ==
    IF v.kind # "FileList" THEN Issue(path, "Please upload a file.")
    ELSE IF ~(Len(v.files) > 0) THEN Issue(path, "Profile picture is required.")
    ELSE IF ~(v.files[1].size <= maxSize)
         THEN Issue(path, "File size must be less than 2MB.")
    ELSE IF v.files[1].type \notin fileFormat
         THEN Issue(path, "Invalid file type. Only JPEG and PNG are allowed.")
    ELSE NoIssue

\* value.profilePicture of a form value: neither a File nor a FileList has
\* such a property.
PropertyProfilePicture(v) == NoPicture

\* profilePictureSchema is z.object({ profilePicture: <the chain> }) and
\* FormSchema.profilePicture is that object schema: the chain is applied to
\* the property profilePicture of the field's value, at the nested path.
profilePictureSchema(path, v) ==
    IF v.kind = "undefined" THEN Issue(path, "Required")
    ELSE FileListChain([path EXCEPT !.key = "profilePicture"], PropertyProfilePicture(v))

\* profilePicture.  part_000: z.instanceof(File).optional().
profilePictureIssue(vr, v) ==
    IF vr = PreviewVariant
    THEN IF v.kind \in {"undefined", "File"} THEN NoIssue
         ELSE Issue(FieldPath("profilePicture"), "Input not instance of File")
    ELSE profilePictureSchema(FieldPath("profilePicture"), v)

-----------------------------------------------------------------------------
(* Rows of the sub-lists *)

\* progLangSchema
progLangSchema(list, i, row) ==
         NonEmptyString(RowPath(list, i, "name"), row.name,
                        "String must contain at least 1 character(s)")
    \cup FluencyIssue(RowPath(list, i, "fluency"), row.fluency)

\* skillsSchema: any string is a name
skillsSchema(list, i, row) ==
         (IF row.name = Undefined
          THEN Issue(RowPath(list, i, "name"), "Required") ELSE NoIssue)
    \cup FluencyIssue(RowPath(list, i, "fluency"), row.fluency)

\* technologiesUsed: z.string() in part_000, z.array(z.string()) in
\* StudentPortfolioForm
technologiesUsedIssue(vr, path, v) ==
    IF v = Undefined THEN Issue(path, "Required")
    ELSE IF vr = PreviewVariant
    THEN IF v = EmptyArray THEN Issue(path, "Expected string, received array")
         ELSE NoIssue
    ELSE IF v = EmptyArray THEN NoIssue
         ELSE Issue(path, "Expected array, received string")

\* projectLink: z.string().url().optional(): undefined passes, every string
\* must be a URL
projectLinkIssue(path, v) ==
    IF v = Undefined THEN NoIssue
    ELSE IF ~IsUrl(v) THEN Issue(path, "Invalid url")
    ELSE NoIssue

\* projectSchema
projectSchema(vr, list, i, row) ==
         MinString(RowPath(list, i, "projectName"), row.projectName, 2,
                   "Project name must be at least 2 characters.")
    \cup MinString(RowPath(list, i, "projectDescription"),
                   row.projectDescription, 10,
                   "Project description must be at least 10 characters.")
    \cup technologiesUsedIssue(vr, RowPath(list, i, "technologiesUsed"),
                               row.technologiesUsed)
    \cup projectLinkIssue(RowPath(list, i, "projectLink"), row.projectLink)
    \cup MinString(RowPath(list, i, "projectDuration"), row.projectDuration, 2,
                   "Project duration must be at least 2 characters.")

\* achievementSchema (part_000): an object with a nonempty name.
\* StudentPortfolioForm: the element itself is a string of 1..50 characters;
\* an object element is no string.
achievementSchema(vr, list, i, row) ==
    IF vr = PreviewVariant
    THEN NonEmptyString(RowPath(list, i, "name"), row.name,
                        "This field is required")
    ELSE Issue(RowPath(list, i, ""), "Expected string, received object")

RowIssues(vr, list, i, row) ==
    CASE list = "progLangs" -> progLangSchema(list, i, row)
      [] list = "skills" -> skillsSchema(list, i, row)
      [] list = "projects" -> projectSchema(vr, list, i, row)
      [] list = "achievements" -> achievementSchema(vr, list, i, row)

\* The four arrays FormSchema names.  z.object strips every other key of the
\* document, so a list stored under another key is never validated.
SchemaLists == {"progLangs", "skills", "projects", "achievements"}

\* (variant of ListIssues: a list must hold at least one row)
ListIssuesAtLeastOne(vr, doc, list) ==
    IF Len(doc[list]) = 0
    THEN Issue(FieldPath(list), "Array must contain at least 1 element(s)")
    ELSE UNION {RowIssues(vr, list, i, doc[list][i]) : i \in 1..Len(doc[list])}

ListIssues(vr, doc, list) ==
    UNION {RowIssues(vr, list, i, doc[list][i]) : i \in 1..Len(doc[list])}

\* (variants of FormSchema: one that never looks into the rows of the lists,
\* one that has no rule for about)
FormSchemaWithoutRows(vr, doc) ==
         profilePictureIssue(vr, doc.profilePicture)
    \cup NonEmptyString(FieldPath("name"), doc.name, "This field is required")
    \cup NonEmptyString(FieldPath("title"), doc.title, "This field is required")
    \cup aboutIssue(doc.about)
    \cup dobIssue(doc.dob)
    \cup NonEmptyString(FieldPath("address"), doc.address, "This field is required")
    \cup enrollNoIssue(vr, doc.enrollNo)
    \cup facultyNoIssue(vr, doc.facultyNo)
    \cup courseIssue(vr, doc.course)
    \cup semesterIssue(vr, doc.semester)
    \cup emailIssue(doc.email)
    \cup phoneIssue(vr, doc.phone)
    \cup UrlString(FieldPath("github"), doc.github)
    \cup UrlString(FieldPath("linkedin"), doc.linkedin)

FormSchemaWithoutAbout(vr, doc) ==
         profilePictureIssue(vr, doc.profilePicture)
    \cup NonEmptyString(FieldPath("name"), doc.name, "This field is required")
    \cup NonEmptyString(FieldPath("title"), doc.title, "This field is required")
    \cup dobIssue(doc.dob)
    \cup NonEmptyString(FieldPath("address"), doc.address, "This field is required")
    \cup enrollNoIssue(vr, doc.enrollNo)
    \cup facultyNoIssue(vr, doc.facultyNo)
    \cup courseIssue(vr, doc.course)
    \cup semesterIssue(vr, doc.semester)
    \cup UNION {ListIssues(vr, doc, l) : l \in SchemaLists}
    \cup emailIssue(doc.email)
    \cup phoneIssue(vr, doc.phone)
    \cup UrlString(FieldPath("github"), doc.github)
    \cup UrlString(FieldPath("linkedin"), doc.linkedin)

\* FormSchema as zodResolver runs it: every key is parsed, every issue kept.
FormSchema(vr, doc) ==
         profilePictureIssue(vr, doc.profilePicture)
    \cup NonEmptyString(FieldPath("name"), doc.name, "This field is required")
    \cup NonEmptyString(FieldPath("title"), doc.title, "This field is required")
    \cup aboutIssue(doc.about)
    \cup dobIssue(doc.dob)
    \cup NonEmptyString(FieldPath("address"), doc.address, "This field is required")
    \cup enrollNoIssue(vr, doc.enrollNo)
    \cup facultyNoIssue(vr, doc.facultyNo)
    \cup courseIssue(vr, doc.course)
    \cup semesterIssue(vr, doc.semester)
    \cup UNION {ListIssues(vr, doc, l) : l \in SchemaLists}
    \cup emailIssue(doc.email)
    \cup phoneIssue(vr, doc.phone)
    \cup UrlString(FieldPath("github"), doc.github)
    \cup UrlString(FieldPath("linkedin"), doc.linkedin)

\* (variants of the transforms with the upper-casing left out)
enrollNoOutputAsTyped(vr, v) == v
facultyNoOutputAsTyped(vr, v) == v

\* The transforms of the schema: what a successful parse hands on.
enrollNoOutput(vr, v) == IF vr = PreviewVariant THEN toUpperCase(v) ELSE v
facultyNoOutput(vr, v) == IF vr = PreviewVariant THEN toUpperCase(v) ELSE v

\* The parsed document: the schema's keys only, the transforms applied.
ParsedDocument(vr, doc) ==
    [profilePicture |-> doc.profilePicture,
     name |-> doc.name, title |-> doc.title, about |-> doc.about,
     dob |-> doc.dob, address |-> doc.address,
     enrollNo |-> enrollNoOutput(vr, doc.enrollNo),
     facultyNo |-> facultyNoOutput(vr, doc.facultyNo),
     course |-> doc.course, semester |-> doc.semester,
     progLangs |-> doc.progLangs, skills |-> doc.skills,
     projects |-> doc.projects, achievements |-> doc.achievements,
     email |-> doc.email, phone |-> doc.phone,
     github |-> doc.github, linkedin |-> doc.linkedin]

Paths(errs) == {PathName(e[1]) : e \in errs}

-----------------------------------------------------------------------------
(* The profile form: default values, the field-array managers *)

\* useForm's defaultValues.  StudentPortfolioForm's list neither dob nor
\* address.  `project` is the key StudentPortfolioForm's projects manager
\* writes to; it is no key of the schema.
DefaultValues(vr) ==
    [profilePicture |-> NoPicture,
     name |-> "", title |-> "", about |-> "",
     enrollNo |-> <<>>, facultyNo |-> <<>>,
     dob |-> IF vr = PreviewVariant THEN "" ELSE Undefined,
     address |-> IF vr = PreviewVariant THEN "" ELSE Undefined,
     course |-> Undefined, semester |-> "",
     progLangs |-> <<>>, skills |-> <<>>, projects |-> <<>>,
     achievements |-> <<>>,
     email |-> "", phone |-> <<>>, github |-> "", linkedin |-> "",
     project |-> <<>>]

Managers == {"language", "project", "skill", "achievement"}

\* The `name` each useFieldArray call is given.
Bound(vr, m) ==
    IF vr = PreviewVariant
    THEN CASE m = "language" -> "progLangs"
           [] m = "project" -> "projects"
           [] m = "skill" -> "skills"
           [] m = "achievement" -> "achievements"
    ELSE CASE m = "language" -> "progLangs"
           [] m = "project" -> "project"
           [] m = "skill" -> "progLangs"
           [] m = "achievement" -> "progLangs"

\* The list the rows' inputs are registered under (the JSX name templates).
Rendered(vr, m) ==
    CASE m = "language" -> "progLangs"
      [] m = "project" -> "projects"
      [] m = "skill" -> "skills"
      [] m = "achievement" -> "achievements"

\* The managers whose rows and buttons the form renders.  StudentPortfolioForm
\* renders no achievements section.
UiManagers(vr) ==
    IF vr = PreviewVariant THEN Managers ELSE {"language", "project", "skill"}

\* The entry each "Add ..." button appends.
DefaultEntry(vr, m) ==
    CASE m \in {"language", "skill"} -> [name |-> "", fluency |-> "Beginner"]
      [] m = "project" ->
            [projectName |-> "", projectDescription |-> "",
             technologiesUsed |-> IF vr = PreviewVariant THEN "" ELSE EmptyArray,
             projectLink |-> "", projectDuration |-> ""]
      [] m = "achievement" -> [name |-> ""]

\* The row react-hook-form creates when an input is registered under a path
\* that has no value yet.
UnregisteredRow(list) ==
    CASE list \in {"progLangs", "skills"} ->
            [name |-> Undefined, fluency |-> Undefined]
      [] list = "projects" ->
            [projectName |-> Undefined, projectDescription |-> Undefined,
             technologiesUsed |-> Undefined, projectLink |-> Undefined,
             projectDuration |-> Undefined]
      [] list = "achievements" -> [name |-> Undefined]

\* react-hook-form's appendAt and removeArrayAt (indices from 1 here, from 0
\* in the source); an index outside the list removes nothing.
appendAt(list, entry) == list \o <<entry>>

\* (variants of removeArrayAt: one that drops the first row whatever the
\* index, one that drops the last)
removeArrayAtFirst(list, i) ==
    IF i \in 1..Len(list) THEN Tail(list) ELSE list

removeArrayAtLast(list, i) ==
    IF i \in 1..Len(list) THEN SubSeq(list, 1, Len(list) - 1) ELSE list

removeArrayAt(list, i) ==
    IF i \in 1..Len(list)
    THEN SubSeq(list, 1, i - 1) \o SubSeq(list, i + 1, Len(list))
    ELSE list

\* The identities of the n rows a hook renders: those it holds, then new ones.
FitIds(ids, n, next) ==
    IF Len(ids) >= n THEN SubSeq(ids, 1, n)
    ELSE ids \o [k \in 1..(n - Len(ids)) |-> next + k - 1]

Fresh(ids, n) == IF Len(ids) >= n THEN 0 ELSE n - Len(ids)

\* Registering the inputs of n rendered rows under `list`.
RegisterRows(doc, list, n) ==
    IF Len(doc[list]) >= n THEN doc
    ELSE [doc EXCEPT ![list] =
            @ \o [k \in 1..(n - Len(@)) |-> UnregisteredRow(list)]]

\* formState.errors after removeArrayAt is applied to the list's errors.
RemoveRowErrors(errs, list, i) ==
    {e \in errs : e[1].field # list \/ e[1].row < i}
    \cup {<<[e[1] EXCEPT !.row = @ - 1], e[2]>> :
            e \in {x \in errs : x[1].field = list /\ x[1].row > i}}

\* reValidateMode onChange: once the form has been submitted, a change of an
\* input replaces the errors under that input's name by the schema's.
Under(p, f, i, key) == p.field = f /\ p.row = i /\ (i = 0 \/ p.key = key)

Revalidate(errs, doc, f, i, key) ==
    IF isSubmitted
    THEN {e \in errs : ~Under(e[1], f, i, key)}
         \cup {e \in FormSchema(variant, doc) : Under(e[1], f, i, key)}
    ELSE errs

-----------------------------------------------------------------------------
(* History: the last UI event *)

\* `report` is what the most recent submit reported (the failing paths),
\* `prevReport` what the submit before it reported.
NoReport == {"<no submit yet>"}

Event(kind, target, index, before, calls) ==
    [kind |-> kind, target |-> target, index |-> index, before |-> before,
     calls |-> calls, prevKind |-> last.kind, prevTarget |-> last.target,
     report |-> last.report, prevReport |-> last.prevReport]

SubmitEvent(found, calls) ==
    [kind |-> "submit", target |-> "form", index |-> 0, before |-> <<>>,
     calls |-> calls, prevKind |-> last.kind, prevTarget |-> last.target,
     report |-> Paths(found), prevReport |-> last.report]

NoEvent ==
    [kind |-> "none", target |-> "", index |-> 0, before |-> <<>>,
     calls |-> <<>>, prevKind |-> "none", prevTarget |-> "",
     report |-> NoReport, prevReport |-> NoReport]

-----------------------------------------------------------------------------
(* What the user can enter *)

ValidEnrollNo == <<"A", "B", "1", "2", "3", "4">>
LowerEnrollNo == <<"a", "b", "1", "2", "3", "4">>
EszettEnrollNo == <<"sz", "1", "2", "3", "4">>
ValidFacultyNo == <<"2", "3", "C", "O", "B", "E", "A", "1", "2", "3">>
LowerFacultyNo == <<"2", "3", "c", "o", "b", "e", "a", "1", "2", "3">>
ValidPhone == <<"9", "8", "7", "6", "5", "4", "3", "2", "1", "0">>
CodedPhone == <<"+", "9", "1", " ">> \o ValidPhone
ShortPhone == SubSeq(ValidPhone, 1, 9)

\* The characters typed into the enrollment and faculty inputs.
IdChars == {"a", "Z", "7", "sz", "-"}

CharFields == {"enrollNo", "facultyNo", "phone"}
TextFields == {"name", "title", "about", "dob", "address", "course",
               "semester", "email", "github", "linkedin"}

\* Fields that have an input in the rendered form.  StudentPortfolioForm
\* renders none for address.
RenderedFields(vr) ==
    IF vr = PreviewVariant THEN TextFields \cup CharFields
    ELSE (TextFields \ {"address"}) \cup CharFields

Candidates(f) ==
    CASE f = "name" -> {"", "Asha"}
      [] f = "title" -> {"", "Member"}
      [] f = "about" -> {"", "Hello", Rep(201)}
      [] f = "dob" -> {"", "2004-02-29", "2003-02-29"}
      [] f = "address" -> {"", "Aligarh"}
      [] f = "course" -> CourseEnum
      [] f = "semester" ->
            {"", "MCA", "MCA: II", "MCA: V", BSc \o ": " \o "VIII"}
      [] f = "email" -> {"", "asha@amu.ac.in", "asha"}
      [] f = "github" -> {"", "https://github.com/asha", "github.com/asha"}
      [] f = "linkedin" -> {"", "https://linkedin.com/in/asha"}
      [] f = "enrollNo" -> {<<>>, ValidEnrollNo, LowerEnrollNo}
      [] f = "facultyNo" -> {<<>>, ValidFacultyNo, LowerFacultyNo}
      [] f = "phone" -> {<<>>, ValidPhone, CodedPhone, ShortPhone}

RowKeys(m) ==
    CASE m \in {"language", "skill"} -> {"name", "fluency"}
      [] m = "project" -> {"projectName", "projectDescription",
                           "technologiesUsed", "projectLink", "projectDuration"}
      [] m = "achievement" -> {"name"}

RowCandidates(key) ==
    CASE key = "name" -> {"", "Python"}
      [] key = "fluency" -> FluencyEnum
      [] key = "projectName" -> {"P", "Portal"}
      [] key = "projectDescription" -> {"short", "A club portal"}
      [] key = "technologiesUsed" -> {"React"}
      [] key = "projectLink" -> {"", "https://github.com/asha", "portal"}
      [] key = "projectDuration" -> {"2", "2 months"}

\* A form filled in by the user with values every rule of part_000 accepts,
\* as far as the rendered inputs allow.
FilledValues(vr) ==
    [DefaultValues(vr) EXCEPT
       !.profilePicture = IF vr = PreviewVariant THEN NoPicture
                          ELSE AsFileList(<<Png1MB>>),
       !.name = "Asha", !.title = "Member", !.about = "Hello",
       !.dob = "2004-02-29",
       !.address = IF vr = PreviewVariant THEN "Aligarh" ELSE Undefined,
       !.enrollNo = ValidEnrollNo, !.facultyNo = ValidFacultyNo,
       !.course = MCA, !.semester = "MCA",
       !.email = "asha@amu.ac.in", !.phone = ValidPhone,
       !.github = "https://github.com/asha",
       !.linkedin = "https://linkedin.com/in/asha"]

-----------------------------------------------------------------------------
(* The profile form's event handlers *)

Budget(n) == edits < n /\ edits' = edits + 1

\* (variant of SetField: inputs are locked while errors are shown)
SetFieldLockedByErrors(f, v) ==
    /\ errors = {}
    /\ f \in RenderedFields(variant)
    /\ LET doc == [values EXCEPT ![f] = v]
       IN  /\ values' = doc
           /\ errors' = Revalidate(errors, doc, f, 0, "")
    /\ last' = Event("change", f, 0, <<>>, <<>>)
    /\ UNCHANGED <<variant, fields, isSubmitted, preview, nextId, objectUrls,
                   login>>

\* An input's onChange (field.onChange of the Controller).
SetField(f, v) ==
    /\ f \in RenderedFields(variant)
    /\ LET doc == [values EXCEPT ![f] = v]
       IN  /\ values' = doc
           /\ errors' = Revalidate(errors, doc, f, 0, "")
    /\ last' = Event("change", f, 0, <<>>, <<>>)
    /\ UNCHANGED <<variant, fields, isSubmitted, preview, nextId, objectUrls,
                   login>>

\* Typing in a text input: one character replaced, added or deleted.
ReplaceChar(f, i, c) ==
    /\ f \in CharFields
    /\ i \in 1..Len(values[f])
    /\ values[f][i] # c
    /\ SetField(f, [values[f] EXCEPT ![i] = c])

AppendChar(f, c) ==
    /\ f \in CharFields
    /\ SetField(f, Append(values[f], c))

DeleteLastChar(f) ==
    /\ f \in CharFields
    /\ values[f] # <<>>
    /\ SetField(f, SubSeq(values[f], 1, Len(values[f]) - 1))

\* (variant of FileChange: part_000's handler without its "if (file)")
FileChangeUnguarded(files) ==
    /\ IF variant = PreviewVariant
       THEN /\ values' = [values EXCEPT !.profilePicture =
                            IF files # <<>> THEN AsFile(files[1]) ELSE NoPicture]
            /\ objectUrls' = objectUrls + 1
            /\ preview' = objectUrls + 1
            /\ UNCHANGED errors
       ELSE LET doc == [values EXCEPT !.profilePicture = AsFileList(files)]
            IN  /\ values' = doc
                /\ errors' = Revalidate(errors, doc, "profilePicture", 0, "")
                /\ UNCHANGED <<objectUrls, preview>>
    /\ last' = Event("file", "profilePicture", Len(files), <<>>, <<>>)
    /\ UNCHANGED <<variant, fields, isSubmitted, nextId, login>>

\* The file input's onChange with the chosen files (none when the dialog is
\* cancelled).  part_000: setValue and setPreview when there is a file,
\* nothing otherwise; setValue does not validate.  StudentPortfolioForm:
\* field.onChange(e.target.files).
FileChange(files) ==
    /\ IF variant = PreviewVariant
       THEN IF files # <<>>
            THEN /\ values' = [values EXCEPT !.profilePicture = AsFile(files[1])]
                 /\ objectUrls' = objectUrls + 1
                 /\ preview' = objectUrls + 1
                 /\ UNCHANGED errors
            ELSE UNCHANGED <<values, objectUrls, preview, errors>>
       ELSE LET doc == [values EXCEPT !.profilePicture = AsFileList(files)]
            IN  /\ values' = doc
                /\ errors' = Revalidate(errors, doc, "profilePicture", 0, "")
                /\ UNCHANGED <<objectUrls, preview>>
    /\ last' = Event("file", "profilePicture", Len(files), <<>>, <<>>)
    /\ UNCHANGED <<variant, fields, isSubmitted, nextId, login>>

\* (variant of ClearPreview: the form's value is left as it is)
ClearPreviewOnly ==
    /\ variant = PreviewVariant
    /\ preview # 0
    /\ preview' = 0
    /\ last' = Event("clear", "profilePicture", 0, <<>>, <<>>)
    /\ UNCHANGED <<variant, values, fields, errors, isSubmitted, nextId,
                   objectUrls, login>>

\* part_000: the button on the preview.
ClearPreview ==
    /\ variant = PreviewVariant
    /\ preview # 0
    /\ values' = [values EXCEPT !.profilePicture = NoPicture]
    /\ preview' = 0
    /\ last' = Event("clear", "profilePicture", 0, <<>>, <<>>)
    /\ UNCHANGED <<variant, fields, errors, isSubmitted, nextId, objectUrls,
                   login>>

\* An "Add ..." button: append(defaultEntry) of the manager m.
AppendRow(m) ==
    /\ m \in UiManagers(variant)
    /\ LET list == Bound(variant, m)
           updated == appendAt(values[list], DefaultEntry(variant, m))
           ids == appendAt(fields[m], nextId)
       IN  /\ Len(values[list]) < MaxRows
           /\ values' = RegisterRows([values EXCEPT ![list] = updated],
                                     Rendered(variant, m), Len(updated))
           /\ fields' = [fields EXCEPT
                           ![m] = FitIds(ids, Len(updated), nextId + 1)]
           /\ nextId' = nextId + 1 + Fresh(ids, Len(updated))
           /\ last' = Event("append", m, Len(updated), values[list], <<>>)
    /\ UNCHANGED <<variant, errors, isSubmitted, preview, objectUrls, login>>

\* The delete button of the i-th row the manager m renders: remove(index).
RemoveRow(m, i) ==
    /\ m \in UiManagers(variant)
    /\ i \in 1..Len(fields[m])
    /\ LET list == Bound(variant, m)
           updated == removeArrayAt(values[list], i)
           ids == removeArrayAt(fields[m], i)
       IN  /\ values' = [values EXCEPT ![list] = updated]
           /\ fields' = [fields EXCEPT ![m] = FitIds(ids, Len(updated), nextId)]
           /\ nextId' = nextId + Fresh(ids, Len(updated))
           /\ errors' = RemoveRowErrors(errors, list, i)
           /\ last' = Event("remove", m, i, values[list], <<>>)
    /\ UNCHANGED <<variant, isSubmitted, preview, objectUrls, login>>

\* onChange of an input of the i-th rendered row of manager m.
SetRowField(m, i, key, v) ==
    /\ m \in UiManagers(variant)
    /\ key \in RowKeys(m)
    /\ LET list == Rendered(variant, m)
       IN  /\ i \in 1..Len(fields[m])
           /\ i \in 1..Len(values[list])
           /\ values[list][i][key] # v
           /\ LET doc == [values EXCEPT ![list][i][key] = v]
              IN  /\ values' = doc
                  /\ errors' = Revalidate(errors, doc, list, i, key)
           /\ last' = Event("change", list, i, <<>>, <<>>)
    /\ UNCHANGED <<variant, fields, isSubmitted, preview, nextId, objectUrls,
                   login>>

\* (variant of Submit: onSubmit resets the form after logging)
SubmitThenReset ==
    /\ LET found == FormSchema(variant, values)
       IN  /\ errors' = found
           /\ last' = SubmitEvent(found,
                                   IF found = {}
                                   THEN <<ParsedDocument(variant, values)>>
                                   ELSE <<>>)
           /\ values' = IF found = {} THEN DefaultValues(variant) ELSE values
    /\ isSubmitted' = TRUE
    /\ UNCHANGED <<variant, fields, preview, edits, nextId, objectUrls, login>>

\* The submit button: form.handleSubmit(onSubmit).  The resolver validates
\* the whole document; onSubmit is called with the parsed document when no
\* issue is found, and not at all otherwise.  onSubmit logs its argument.
Submit ==
    /\ LET found == FormSchema(variant, values)
       IN  /\ errors' = found
           /\ last' = SubmitEvent(found,
                                   IF found = {}
                                   THEN <<ParsedDocument(variant, values)>>
                                   ELSE <<>>)
    /\ isSubmitted' = TRUE
    /\ UNCHANGED <<variant, values, fields, preview, edits, nextId, objectUrls,
                   login>>

-----------------------------------------------------------------------------
(* The login page (declared below); idle while the profile form is explored *)

LoginIdle ==
    [email |-> <<>>, password |-> "", route |-> "/login", inflight |-> <<>>,
     sent |-> 0, alerts |-> <<>>, errors |-> {}]

-----------------------------------------------------------------------------
(* The profile form *)

NoFields == [m \in Managers |-> <<>>]

ValidProject ==
    [projectName |-> "Portal", projectDescription |-> "A club portal",
     technologiesUsed |-> "React", projectLink |-> "https://github.com/asha",
     projectDuration |-> "2 months"]

\* The page as mounted (the default values), or as a user has filled it in:
\* every scalar input filled, and after one "Add" click per rendered section
\* with the row's inputs filled.
Mounted(vr) ==
    [doc |-> DefaultValues(vr), rows |-> NoFields, ids |-> 0]

Filled(vr) ==
    [doc |-> FilledValues(vr), rows |-> NoFields, ids |-> 0]

FilledWithRows(vr) ==
    IF vr = PreviewVariant
    THEN [doc |-> [FilledValues(vr) EXCEPT
                     !.progLangs = <<[name |-> "Python", fluency |-> "Expert"]>>,
                     !.skills = <<[name |-> "Design", fluency |-> "Beginner"]>>,
                     !.projects = <<ValidProject>>,
                     !.achievements = <<[name |-> "Hackathon"]>>],
          rows |-> [m \in Managers |->
                      CASE m = "language" -> <<1>>
                        [] m = "skill" -> <<2>>
                        [] m = "project" -> <<3>>
                        [] m = "achievement" -> <<4>>],
          ids |-> 4]
    ELSE [doc |-> [FilledValues(vr) EXCEPT
                     !.progLangs = <<[name |-> "Python", fluency |-> "Expert"]>>],
          rows |-> [NoFields EXCEPT !["language"] = <<1>>],
          ids |-> 1]

Sessions(vr) == {Mounted(vr), Filled(vr), FilledWithRows(vr)}

InitForm(sessions) ==
    /\ variant \in Variants
    /\ \E s \in sessions[variant] :
          /\ values = s.doc
          /\ fields = s.rows
          /\ nextId = s.ids + 1
    /\ errors = {}
    /\ isSubmitted = FALSE
    /\ preview = 0
    /\ last = NoEvent
    /\ edits = 0
    /\ objectUrls = 0
    /\ login = LoginIdle

Init == InitForm([vr \in Variants |-> Sessions(vr)])

ScalarEdit ==
    /\ Budget(MaxEdits)
    /\ \/ \E f \in TextFields \cup CharFields : \E v \in Candidates(f) :
             values[f] # v /\ SetField(f, v)
       \/ \E file \in Files : FileChange(<<file>>)
       \/ FileChange(<<>>)
       \/ ClearPreview

ListEdit ==
    /\ Budget(MaxEdits)
    /\ \/ \E m \in Managers : AppendRow(m)
       \/ \E m \in Managers : \E i \in 1..MaxRows : RemoveRow(m, i)
       \/ \E m \in Managers : \E i \in 1..MaxRows :
            \E key \in RowKeys(m) : \E v \in RowCandidates(key) :
               SetRowField(m, i, key, v)

Next == ScalarEdit \/ ListEdit \/ Submit

Spec == Init /\ [][Next]_vars

-----------------------------------------------------------------------------
(* The login page *)

\* formSchema: email is upper-cased and must then be an enrollment number;
\* password has at least 6 characters.
loginSchema(form) ==
         (IF EnrollRegex(toUpperCase(form.email)) THEN NoIssue
          ELSE Issue(FieldPath("email"), "Invalid Enrollment number"))
    \cup MinString(FieldPath("password"), form.password, 6,
                   "Password must be atleast of 6 characters")

\* (variant of loginBody: the values as typed, the transform left out)
loginBodyAsTyped(form) ==
    [email |-> form.email, password |-> form.password]

\* The parsed login form: the body of the POST.
loginBody(form) ==
    [email |-> toUpperCase(form.email), password |-> form.password]

LoginCandidates(f) ==
    CASE f = "email" -> {<<>>, ValidEnrollNo, LowerEnrollNo, ShortPhone}
      [] f = "password" -> {"", "12345", "secret"}

OnLoginPage == login.route = "/login"

LoginSetField(f, v) ==
    /\ OnLoginPage
    /\ login[f] # v
    /\ login' = [login EXCEPT ![f] = v]
    /\ last' = Event("loginChange", f, 0, <<>>, <<>>)
    /\ UNCHANGED <<variant, values, fields, errors, isSubmitted, preview,
                   edits, nextId, objectUrls>>

\* form.handleSubmit(onSubmit) of the login form, as far as the request:
\* onSubmit runs up to its await of axios.post.
handleLoginSubmit(page) ==
    LET found == loginSchema(page)
    IN  IF found = {}
        THEN [page EXCEPT !.errors = {},
                          !.inflight = Append(@, loginBody(page)),
                          !.sent = @ + 1]
        ELSE [page EXCEPT !.errors = found]

\* The "Sign in" button.  Nothing disables it while a request is pending.
LoginSubmit ==
    /\ OnLoginPage
    /\ login.sent < MaxRequests
    /\ login' = handleLoginSubmit(login)
    /\ last' = Event("loginSubmit", "form", login'.sent - login.sent,
                     <<login.route>>, <<>>)
    /\ UNCHANGED <<variant, values, fields, errors, isSubmitted, preview,
                   edits, nextId, objectUrls>>

\* The "New user? Register" button: its onClick navigates.  The button has no
\* type attribute, so inside the form it is a submit button; whether the
\* form's submit event is still dispatched after the navigation depends on
\* when the router re-renders, which is not decided by this page.
RegisterClick(submits) ==
    /\ OnLoginPage
    /\ login.sent < MaxRequests
    /\ LET moved == [login EXCEPT !.route = "/register"]
       IN  login' = IF submits THEN handleLoginSubmit(moved) ELSE moved
    /\ last' = Event("register", "form", login'.sent - login.sent,
                     <<login.route>>, <<>>)
    /\ UNCHANGED <<variant, values, fields, errors, isSubmitted, preview,
                   edits, nextId, objectUrls>>

\* (variant of onSettled: a failed request is sent again)
onSettledRetrying(page, k, ok) ==
    LET rest == removeArrayAt(page.inflight, k)
    IN  IF ok
        THEN [page EXCEPT !.inflight = rest, !.route = "/",
                          !.alerts = Append(@, "Login successful")]
        ELSE [page EXCEPT !.inflight = Append(rest, page.inflight[k]),
                          !.sent = @ + 1,
                !.alerts = Append(@, "Invalid credentials or something went wrong")]

\* The rest of onSubmit, once the k-th pending request settles: on success
\* navigate("/") and the success alert; on any failure the catch block's
\* alert.
onSettled(page, k, ok) ==
    LET rest == removeArrayAt(page.inflight, k)
    IN  IF ok
        THEN [page EXCEPT !.inflight = rest, !.route = "/",
                          !.alerts = Append(@, "Login successful")]
        ELSE [page EXCEPT !.inflight = rest,
                !.alerts = Append(@, "Invalid credentials or something went wrong")]

Respond(k, ok) ==
    /\ k \in 1..Len(login.inflight)
    /\ login' = onSettled(login, k, ok)
    /\ last' = Event("response", IF ok THEN "ok" ELSE "failed", k,
                     <<login.route>>, <<>>)
    /\ UNCHANGED <<variant, values, fields, errors, isSubmitted, preview,
                   edits, nextId, objectUrls>>

InitLogin ==
    /\ variant = PreviewVariant
    /\ values = DefaultValues(PreviewVariant)
    /\ fields = NoFields
    /\ nextId = 1
    /\ errors = {}
    /\ isSubmitted = FALSE
    /\ preview = 0
    /\ last = NoEvent
    /\ edits = 0
    /\ objectUrls = 0
    /\ login = LoginIdle

LoginEdit ==
    \E f \in {"email", "password"} : \E v \in LoginCandidates(f) :
        LoginSetField(f, v)

LoginRegister == \E submits \in BOOLEAN : RegisterClick(submits)

LoginResponse == \E k \in 1..MaxRequests : \E ok \in BOOLEAN : Respond(k, ok)

NextLogin == LoginEdit \/ LoginSubmit \/ LoginRegister \/ LoginResponse

SpecLogin == InitLogin /\ [][NextLogin]_vars

-----------------------------------------------------------------------------
(* The enrollment and faculty number inputs, character by character: a    *)
(* filled-in form whose enrollNo or facultyNo holds one of the templates,  *)
(* then single-character edits of the two inputs, and submits.             *)

EnrollTemplates == {<<>>, ValidEnrollNo, LowerEnrollNo, EszettEnrollNo}
FacultyTemplates == {<<>>, ValidFacultyNo, LowerFacultyNo}
IdFields == {"enrollNo", "facultyNo"}

IdSessions(vr) ==
         {[Filled(vr) EXCEPT !.doc.enrollNo = t] : t \in EnrollTemplates}
    \cup {[Filled(vr) EXCEPT !.doc.facultyNo = t] : t \in FacultyTemplates}

InitIds == InitForm([vr \in Variants |-> IdSessions(vr)])

TypeReplace ==
    /\ Budget(MaxIdEdits)
    /\ \E f \in IdFields : \E i \in 1..Len(values[f]) : \E c \in IdChars :
          ReplaceChar(f, i, c)

TypeAppend ==
    /\ Budget(MaxIdEdits)
    /\ \E f \in IdFields : \E c \in IdChars : AppendChar(f, c)

TypeDelete ==
    /\ Budget(MaxIdEdits)
    /\ \E f \in IdFields : DeleteLastChar(f)

NextIds == TypeReplace \/ TypeAppend \/ TypeDelete \/ Submit

SpecIds == InitIds /\ [][NextIds]_vars

-----------------------------------------------------------------------------
(* Claims *)

JustSubmitted == last.kind = "submit"
OnSubmitCalled == JustSubmitted /\ last.calls # <<>>
Reported(name) == name \in Paths(errors)

\* C1: after a submit, either the enrollNo input is accepted (no error on
\* enrollNo), its upper-cased text matches ^[A-Z]{2}[0-9]{4}$ and, when
\* onSubmit is called, the enrollNo it receives is that upper-cased text; or
\* the error 'Invalid Enrollment number' is recorded on path enrollNo.
C1_EnrollNoNormalizedOrNamedError ==
    JustSubmitted =>
       LET typed == values.enrollNo
       IN  IF Reported("enrollNo")
           THEN /\ <<FieldPath("enrollNo"), "Invalid Enrollment number">> \in errors
                /\ ~OnSubmitCalled
           ELSE /\ EnrollRegex(toUpperCase(typed))
                /\ OnSubmitCalled =>
                     /\ last.calls[1].enrollNo = toUpperCase(typed)
                     /\ EnrollRegex(last.calls[1].enrollNo)

\* C1 witness: a lower-case enrollment number was submitted and onSubmit
\* received its upper-cased form.
C1_Witness ==
    /\ OnSubmitCalled
    /\ values.enrollNo # toUpperCase(values.enrollNo)
    /\ last.calls[1].enrollNo = toUpperCase(values.enrollNo)

\* C2: after a submit, the facultyNo input is accepted only if its
\* upper-cased text matches ^[0-9]{2}[A-Z]{5}[0-9]{3}$, and then onSubmit
\* receives that upper-cased text; otherwise the error 'Invalid Faculty
\* number' is recorded on path facultyNo.
C2_FacultyNoNormalizedOrNamedError ==
    JustSubmitted =>
       LET typed == values.facultyNo
       IN  IF Reported("facultyNo")
           THEN /\ <<FieldPath("facultyNo"), "Invalid Faculty number">> \in errors
                /\ ~OnSubmitCalled
           ELSE /\ FacultyRegex(toUpperCase(typed))
                /\ OnSubmitCalled =>
                     /\ last.calls[1].facultyNo = toUpperCase(typed)
                     /\ FacultyRegex(last.calls[1].facultyNo)

\* C2 witness: a lower-case faculty number was submitted and onSubmit
\* received its upper-cased form.
C2_Witness ==
    /\ OnSubmitCalled
    /\ values.facultyNo # toUpperCase(values.facultyNo)
    /\ last.calls[1].facultyNo = toUpperCase(values.facultyNo)

-----------------------------------------------------------------------------
(* The rules of the schema, one by one, on the current document *)

SchemaFields == {"profilePicture", "name", "title", "about", "dob", "address",
                 "enrollNo", "facultyNo", "course", "semester", "email",
                 "phone", "github", "linkedin"}

FieldRule(f) ==
    CASE f = "profilePicture" -> profilePictureIssue(variant, values.profilePicture)
      [] f = "about" -> aboutIssue(values.about)
      [] f = "dob" -> dobIssue(values.dob)
      [] f = "enrollNo" -> enrollNoIssue(variant, values.enrollNo)
      [] f = "facultyNo" -> facultyNoIssue(variant, values.facultyNo)
      [] f = "course" -> courseIssue(variant, values.course)
      [] f = "semester" -> semesterIssue(variant, values.semester)
      [] f = "email" -> emailIssue(values.email)
      [] f = "phone" -> phoneIssue(variant, values.phone)
      [] f \in {"github", "linkedin"} -> UrlString(FieldPath(f), values[f])
      [] f \in {"name", "title", "address"} ->
            NonEmptyString(FieldPath(f), values[f], "This field is required")

RowRule(list, i) == RowIssues(variant, list, i, values[list][i])

FailingRules ==
         UNION {FieldRule(f) : f \in SchemaFields}
    \cup UNION {UNION {RowRule(l, i) : i \in 1..Len(values[l])} :
                  l \in SchemaLists}

ValidSemesters(c) ==
    {c \o ": " \o r : r \in IF c = BSc THEN RomanToEight ELSE RomanToFour}

\* C3 (as claimed): in the form with the semester pattern, with course MCA,
\* a submit reports an error on semester exactly when the semester is none of
\* "MCA: I" .. "MCA: IV"; so "MCA: II" passes and "MCA: V" fails.
C3_McaSemestersOneToFour ==
    (JustSubmitted /\ variant = StrictVariant /\ values.course = MCA) =>
        (Reported("semester") <=> values.semester \notin ValidSemesters(MCA))

\* C4 (as claimed): in the form with the semester pattern, a semester that
\* names another course than the selected one is rejected on the semester
\* field.
C4_SemesterOfAnotherCourseRejected ==
    (/\ JustSubmitted
     /\ variant = StrictVariant
     /\ values.course \in CourseEnum
     /\ \E d \in CourseEnum \ {values.course} :
           values.semester \in ValidSemesters(d))
    => Reported("semester")

PictureErrors == {e \in errors : e[1].field = "profilePicture"}

\* C5 (as claimed): in the form enforcing maxSize, a submit with the file
\* input holding a 3MB JPEG reports 'File size must be less than 2MB.' for
\* the picture, and with a 1MB PNG reports nothing for the picture.
C5_PictureSizeEnforced ==
    (JustSubmitted /\ variant = StrictVariant) =>
        /\ values.profilePicture = AsFileList(<<Jpeg3MB>>) =>
              \E e \in PictureErrors : e[2] = "File size must be less than 2MB."
        /\ values.profilePicture = AsFileList(<<Png1MB>>) =>
              PictureErrors = {}

\* C6: after a submit, onSubmit has been called exactly when no rule of any
\* field and of any row of the four lists fails; and the paths reported are
\* exactly the paths of all the failing rules.
C6_SubmitIffEveryRulePasses ==
    JustSubmitted =>
        /\ OnSubmitCalled <=> FailingRules = {}
        /\ Paths(errors) = Paths(FailingRules)

\* C6 witness: a blocked submit of part_000's form that reports a scalar
\* field and a row's field together.
C6_Witness ==
    /\ JustSubmitted
    /\ variant = PreviewVariant
    /\ ~OnSubmitCalled
    /\ \E e \in errors : e[1].row = 0
    /\ \E e \in errors : e[1].row > 0

\* C7, the blocked submit: when exactly one rule fails, the submit does not
\* call onSubmit and reports that one path and no other.
C7_OneInvalidFieldReported ==
    (JustSubmitted /\ Cardinality(Paths(FailingRules)) = 1) =>
        /\ ~OnSubmitCalled
        /\ Paths(errors) = Paths(FailingRules)

\* C7, the resubmit: when the last submit reported exactly one scalar field,
\* the user has since changed that field and nothing else, and the field now
\* passes its rule, a submit calls onSubmit and leaves no error.
C7_ResubmitSucceeds ==
    (/\ last.kind = "change" /\ last.prevKind = "submit" /\ last.index = 0
     /\ last.report = {last.target}
     /\ FieldRule(last.target) = {}
     /\ Submit)
    => (last'.calls # <<>> /\ errors' = {})

\* C7: a submit with exactly one invalid field is blocked and reports exactly
\* that field's path; correcting the field and submitting again succeeds.
C7_OneInvalidFieldThenCorrected ==
    [](C7_OneInvalidFieldReported) /\ [][C7_ResubmitSucceeds]_vars

\* C7 witness: about was the only path reported, the user changed about, and
\* the next submit called onSubmit.
C7_Witness ==
    /\ OnSubmitCalled
    /\ last.prevKind = "change" /\ last.prevTarget = "about"
    /\ last.prevReport = {"about"}

C9_RemoveShiftsLaterRows ==
    (last.kind = "remove" /\ last.index \in 1..Len(last.before)) =>
        LET now == values[Bound(variant, last.target)]
            was == last.before
            i == last.index
        IN  /\ Len(now) = Len(was) - 1
            /\ \A j \in 1..(i - 1) : now[j] = was[j]
            /\ \A j \in i..(Len(was) - 1) : now[j] = was[j + 1]

\* C9 witness: the first of two different rows was removed.
C9_Witness ==
    /\ last.kind = "remove" /\ last.index = 1
    /\ Len(last.before) = 2
    /\ last.before[1] # last.before[2]
    /\ values[Bound(variant, last.target)] = <<last.before[2]>>

-----------------------------------------------------------------------------
(* The login page with the "Sign in" button alone *)

NextSignIn == LoginEdit \/ LoginSubmit \/ LoginResponse

SpecSignIn == InitLogin /\ [][NextSignIn]_vars

\* C10 (as claimed): once a request has settled, a success has navigated to
\* "/" and a failure has raised the generic alert and the route is still the
\* login page.
C10_FailureStaysOnLoginPage ==
    last.kind = "response" =>
        IF last.target = "ok"
        THEN login.route = "/"
        ELSE /\ login.alerts[Len(login.alerts)] =
                   "Invalid credentials or something went wrong"
             /\ login.route = "/login"

-----------------------------------------------------------------------------
(* The login request *)

\* A step in which the login form's submit event is handled: the Sign in
\* button, or the Register button when its click submits the form.
SubmitHandled == last'.kind \in {"loginSubmit", "register"}

\* C11: every handled submit of a form that passes validation sends exactly
\* one request and a submit of a form that fails validation sends none; no
\* other step sends a request, so a failed request is not retried; and a
\* pending request leaves the page only by settling, never by a cancel or a
\* timeout.
C11_OneRequestPerSubmitNoRetry ==
    [][/\ (last'.kind = "loginSubmit") =>
              login'.sent - login.sent =
                 (IF loginSchema(login) = {} THEN 1 ELSE 0)
       /\ login'.sent - login.sent \in {0, 1}
       /\ Len(login'.inflight) - Len(login.inflight) =
             (login'.sent - login.sent)
               - (IF last'.kind = "response" THEN 1 ELSE 0)
       /\ ~SubmitHandled => login'.sent = login.sent]_vars

\* C11 witness: the one request that was sent has failed, and nothing is
\* pending.
C11_Witness ==
    /\ last.kind = "response" /\ last.target = "failed"
    /\ login.sent = 1
    /\ login.inflight = <<>>

-----------------------------------------------------------------------------
(* The preview's object URLs *)

\* The object URLs the page has released: neither handler, nor any effect,
\* calls URL.revokeObjectURL.
Revoked == {}

\* The object URLs created (numbered from 1) and not released.
Unrevoked == (1..objectUrls) \ Revoked

\* C12 (as claimed): at most one created object URL is unrevoked, and none
\* when the preview is empty.
C12_ObjectUrlsReleased ==
    /\ Cardinality(Unrevoked) <= 1
    /\ preview = 0 => Unrevoked = {}

-----------------------------------------------------------------------------
(* Recovery: a user who keeps correcting what validation rejects *)

\* A form as a user may have left it: filled in, with some inputs wrong.
Damaged(vr) ==
    [FilledWithRows(vr) EXCEPT
        !.doc.about = "", !.doc.email = "asha", !.doc.progLangs[1].name = ""]

\* The same with nothing entered for the enrollment number and the date.
Unnumbered(vr) ==
    [Filled(vr) EXCEPT !.doc.enrollNo = <<>>, !.doc.dob = ""]

RecoverSessions(vr) ==
    {Filled(vr), FilledWithRows(vr), Damaged(vr), Unnumbered(vr)}

InitRecover == InitForm([vr \in Variants |-> RecoverSessions(vr)])

\* Any one action the rendered form offers (editing a field, choosing a file,
\* clearing the preview, adding or removing a row, editing a row), taken only
\* when it is a correction: the schema rejects strictly less afterwards.
Recover ==
    /\ UNCHANGED edits
    /\ \/ \E f \in TextFields \cup CharFields : \E v \in Candidates(f) :
             values[f] # v /\ SetField(f, v)
       \/ \E file \in Files : FileChange(<<file>>)
       \/ ClearPreview
       \/ \E m \in Managers : AppendRow(m)
       \/ \E m \in Managers : \E i \in 1..MaxRows : RemoveRow(m, i)
       \/ \E m \in Managers : \E i \in 1..MaxRows :
            \E key \in RowKeys(m) : \E v \in RowCandidates(key) :
               SetRowField(m, i, key, v)
    /\ FormSchema(variant, values') \subseteq FormSchema(variant, values)
    /\ FormSchema(variant, values') # FormSchema(variant, values)

NextRecover == Recover \/ Submit

\* The user does not stop while a correction or a submit is still to be made.
SpecRecover ==
    InitRecover /\ [][NextRecover]_vars
    /\ WF_vars(Recover) /\ WF_vars(Submit)

\* C13 (as claimed): whatever the form holds, in either variant, the user who
\* keeps correcting reaches a submit that passes validation and calls
\* onSubmit.
C13_EveryFailureRecoverable == <>OnSubmitCalled

\* What stands behind the failure of C13: in StudentPortfolioForm no action
\* whatever removes the issue on address (no input, no default) and the one
\* on profilePicture.profilePicture, so onSubmit is never called.
StrictFormNeverAccepted ==
    variant = StrictVariant =>
        /\ ~OnSubmitCalled
        /\ "address" \in Paths(FormSchema(variant, values))
        /\ {"profilePicture", "profilePicture.profilePicture"}
              \cap Paths(FormSchema(variant, values)) # {}

\* In part_000 alone the claim holds.
PreviewFormRecoverable == (variant = PreviewVariant) => <>OnSubmitCalled

-----------------------------------------------------------------------------
(* The sub-list managers *)

\* The list of the entity type a manager is named after.
OwnList(m) ==
    CASE m = "language" -> "progLangs"
      [] m = "skill" -> "skills"
      [] m = "project" -> "projects"
      [] m = "achievement" -> "achievements"

\* C14 (as claimed): an append or a remove through the manager of one entity
\* type leaves the lists of the other three entity types and every scalar
\* field as they were.
C14_ManagerChangesOnlyItsList ==
    [][\A m \in Managers :
         (last'.kind \in {"append", "remove"} /\ last'.target = m)
         => \A k \in (SchemaLists \cup SchemaFields) \ {OwnList(m)} :
               values'[k] = values[k]]_vars

-----------------------------------------------------------------------------
(* The course rule, on documents whose course is any value *)

\* Values a document's course may hold: unset, the placeholder, the three
\* course names, and a name that is none of them.
CourseInputs == {Undefined, "SELECT", "BCA"} \cup CourseEnum

CourseSessions(vr) ==
    {[s EXCEPT !.doc.course = c, !.doc.semester = t] :
        s \in Sessions(vr), c \in CourseInputs, t \in Candidates("semester")}

InitCourse == InitForm([vr \in Variants |-> CourseSessions(vr)])

\* The course Select: its items are the three course names.
SelectCourse ==
    /\ Budget(MaxEdits)
    /\ \E c \in CourseEnum : values.course # c /\ SetField("course", c)

NextCourse == SelectCourse \/ Submit

SpecCourse == InitCourse /\ [][NextCourse]_vars

\* C15: after a submit there is an error on course exactly when the course
\* is none of the three course names (unset and 'SELECT' included), and then
\* onSubmit is not called.
C15_CourseIsAnEnumeratedName ==
    JustSubmitted =>
        /\ Reported("course") <=> values.course \notin CourseEnum
        /\ values.course \notin CourseEnum => ~OnSubmitCalled

\* C15 witness: StudentPortfolioForm's schema has refused the placeholder.
C15_Witness ==
    /\ JustSubmitted
    /\ variant = StrictVariant
    /\ values.course = "SELECT"
    /\ <<FieldPath("course"), "You must select a valid course">> \in errors

-----------------------------------------------------------------------------
(* Counts of rows *)

\* The form with only its list sections and its submit button in use.
NextLists == ListEdit \/ Submit

SpecLists == Init /\ [][NextLists]_vars

AllListsEmpty == \A l \in SchemaLists : values[l] = <<>>

\* C16: no count is enforced.  Every rendered "Add" button can append (up to
\* the bound MaxRows of this model), the delete button of every rendered row
\* can remove, a submit never reports an error on a list as a whole, and a
\* submit of a form with all four lists empty calls onSubmit whenever every
\* scalar rule passes.
C16_NoMinimumOrMaximumCount ==
    /\ \A m \in UiManagers(variant) :
          Len(values[Bound(variant, m)]) < MaxRows => ENABLED AppendRow(m)
    /\ \A m \in UiManagers(variant) : \A i \in 1..Len(fields[m]) :
          ENABLED RemoveRow(m, i)
    /\ JustSubmitted =>
          /\ \A e \in errors : e[1].field \in SchemaLists => e[1].row > 0
          /\ (AllListsEmpty /\ UNION {FieldRule(f) : f \in SchemaFields} = {})
                => OnSubmitCalled

\* C16 witness: the only row of a list has been removed, and the submit of the
\* form with all four lists empty has called onSubmit.
C16_Witness ==
    /\ OnSubmitCalled
    /\ AllListsEmpty
    /\ last.prevKind = "remove"

-----------------------------------------------------------------------------
(* The project link *)

LinkReported(i) ==
    \E e \in errors : e[1] = RowPath("projects", i, "projectLink")

\* C17 (as claimed): after a submit, a project row whose link is still the
\* one appendProject gave it has no error on its link, and a row whose link
\* the user filled in has no error on its link only if the link is a URL.
C17_ProjectLinkOptional ==
    JustSubmitted =>
        \A i \in 1..Len(values.projects) :
            LET link == values.projects[i].projectLink
                asAppended == DefaultEntry(variant, "project").projectLink
            IN  /\ link = asAppended => ~LinkReported(i)
                /\ (link # asAppended /\ ~LinkReported(i)) => IsUrl(link)

-----------------------------------------------------------------------------
(* The two schemas on the same enrollment and faculty numbers *)

\* C18 (as claimed): in either variant, after a submit the enrollment number
\* has no error exactly when its upper-cased text matches the pattern, and
\* likewise the faculty number; so both variants accept the same inputs.
C18_VariantsAcceptSameNumbers ==
    JustSubmitted =>
        /\ ~Reported("enrollNo") <=> EnrollRegex(toUpperCase(values.enrollNo))
        /\ ~Reported("facultyNo") <=> FacultyRegex(toUpperCase(values.facultyNo))

-----------------------------------------------------------------------------
(* Row identities *)

\* The identities of the rows a manager renders are pairwise distinct.
IdentitiesDistinct ==
    \A m \in Managers : \A j, k \in 1..Len(fields[m]) :
        j # k => fields[m][j] # fields[m][k]

\* A remove through a manager leaves the other rows of that manager, their
\* identities and their values, as they were and in their order.
RemoveKeepsOtherRows ==
    \A m \in Managers :
        (last'.kind = "remove" /\ last'.target = m)
        => LET i == last'.index
               list == Bound(variant, m)
           IN  /\ fields'[m] = removeArrayAt(fields[m], i)
               /\ values'[list] = removeArrayAt(values[list], i)

\* C19 (as claimed): in every reachable state the identities of a manager's
\* rows are pairwise distinct, and a remove leaves the identity and the
\* values of every row but the removed one unchanged.
C19_RowIdentityStable ==
    []IdentitiesDistinct /\ [][RemoveKeepsOtherRows]_vars

\* In part_000 alone the claim holds.
PreviewFormKeepsIdentity ==
    []IdentitiesDistinct
    /\ [][variant = PreviewVariant => RemoveKeepsOtherRows]_vars

-----------------------------------------------------------------------------
(* Indices of the delete buttons *)

\* C20 (as claimed): the index of every rendered delete button is in range
\* for the list its manager is bound to: a manager renders no more rows than
\* that list holds.
C20_RemoveIndexInRange ==
    \A m \in UiManagers(variant) : \A i \in 1..Len(fields[m]) :
        i \in 1..Len(values[Bound(variant, m)])

\* In part_000 alone the claim holds.
PreviewFormIndexInRange ==
    variant = PreviewVariant => C20_RemoveIndexInRange

-----------------------------------------------------------------------------
(* Editing while errors are shown *)

\* The inputs edited in this specification, next to the list sections.
EditedFields == {"about", "enrollNo"}

TextEdit ==
    /\ Budget(MaxLateEdits)
    /\ \E f \in EditedFields : \E v \in Candidates(f) :
          values[f] # v /\ SetField(f, v)

RowEdit ==
    /\ Budget(MaxLateEdits)
    /\ \/ \E m \in Managers : AppendRow(m)
       \/ \E m \in Managers : \E i \in 1..MaxRows : RemoveRow(m, i)

NextEditing == TextEdit \/ RowEdit \/ Submit

SpecEditing == Init /\ [][NextEditing]_vars

\* C21: in every reachable state, errors reported or not, every rendered
\* input can be changed, a file can be chosen, every rendered "Add" button
\* can append (up to the bound MaxRows of this model), every rendered row can
\* be removed, and the form can be submitted.
C21_ValidationNeverBlocksEditing ==
    /\ \A f \in RenderedFields(variant) : \A v \in Candidates(f) :
          ENABLED SetField(f, v)
    /\ \A file \in Files : ENABLED FileChange(<<file>>)
    /\ \A m \in UiManagers(variant) :
          /\ Len(values[Bound(variant, m)]) < MaxRows => ENABLED AppendRow(m)
          /\ \A i \in 1..Len(fields[m]) : ENABLED RemoveRow(m, i)
    /\ ENABLED Submit

\* C21 witness: a submit has failed, the user has then changed an input, and
\* errors are still reported.
C21_Witness ==
    /\ last.kind = "change" /\ last.prevKind = "submit"
    /\ last.report # {}
    /\ errors # {}

-----------------------------------------------------------------------------
(* Submitting twice *)

PictureEdit ==
    /\ Budget(MaxEdits)
    /\ \/ \E file \in Files : FileChange(<<file>>)
       \/ FileChange(<<>>)
       \/ ClearPreview

NextResubmit == PictureEdit \/ TextEdit \/ RowEdit \/ Submit

SpecResubmit == Init /\ [][NextResubmit]_vars

\* C22: a submit that calls onSubmit changes no value of the form, no list,
\* not the chosen picture and not the preview; and a submit that directly
\* follows a successful one succeeds again, with the same document.
C22_SubmitOnlyLogs ==
    [][(last'.kind = "submit" /\ last'.calls # <<>>)
       => /\ values' = values
          /\ fields' = fields
          /\ preview' = preview
          /\ objectUrls' = objectUrls
          /\ FormSchema(variant, values') = {}]_vars
    /\ [][OnSubmitCalled /\ last'.kind = "submit" => last'.calls = last.calls]_vars

\* C22 witness: with a picture chosen and previewed, a successful submit has
\* been followed directly by another successful submit.
C22_Witness ==
    /\ OnSubmitCalled
    /\ last.prevKind = "submit" /\ last.prevReport = {}
    /\ values.profilePicture.kind = "File"
    /\ preview # 0

-----------------------------------------------------------------------------
(* The phone number *)

\* C23 (as claimed): after a submit there is no error on phone exactly when
\* the phone is ten digits, optionally preceded by a country code (an
\* optional plus, one to three digits, at most one hyphen or space).
C23_PhoneWithOptionalCountryCode ==
    JustSubmitted => (~Reported("phone") <=> PhoneRegexLoose(values.phone))

\* In part_000 alone the claim holds.
PreviewFormPhoneAsClaimed ==
    variant = PreviewVariant => C23_PhoneWithOptionalCountryCode

-----------------------------------------------------------------------------
(* The error messages the form displays *)

\* The scalar fields whose FormItem holds a FormMessage: every rendered input
\* and the file input, but for enrollNo and facultyNo, in both files.
MessageFields(vr) ==
    (RenderedFields(vr) \cup {"profilePicture"}) \ {"enrollNo", "facultyNo"}

\* The recorded errors of scalar fields that the rendered form displays: a
\* FormMessage shows the message recorded under its field's own name.
Displayed ==
    {e \in errors : /\ e[1].row = 0 /\ e[1].key = ""
                    /\ e[1].field \in MessageFields(variant)}

\* C24 (as claimed): every error recorded for a scalar field is displayed at
\* that field.
C24_EveryFieldErrorDisplayed ==
    \A e \in errors : e[1].field \in SchemaFields => e \in Displayed

\* What does hold: the errors of the scalar inputs other than enrollNo and
\* facultyNo are displayed.
FieldErrorsWithMessageDisplayed ==
    \A e \in errors :
        e[1].field \in RenderedFields(variant) \ {"enrollNo", "facultyNo"}
        => e \in Displayed

-----------------------------------------------------------------------------
(* The preview and the chosen picture *)

\* C25: in the form with the preview, the preview is non-empty exactly when
\* the form's profilePicture is a file.
C25_PreviewIffPictureIsFile ==
    variant = PreviewVariant =>
        (preview # 0 <=> values.profilePicture.kind = "File")

\* C25 witness: a file was chosen and then removed with the button on the
\* preview; both are empty again.
C25_Witness ==
    /\ variant = PreviewVariant
    /\ last.kind = "clear" /\ last.prevKind = "file"
    /\ preview = 0
    /\ values.profilePicture = NoPicture

-----------------------------------------------------------------------------
(* The Register button *)

\* C26 (as claimed): a click on "New user? Register" sends no login request
\* and moves the route to /register, and from then on the route stays
\* /register.
C26_RegisterOnlyNavigates ==
    [][/\ (last'.kind = "register") =>
              /\ login'.sent = login.sent
              /\ login'.route = "/register"
       /\ (login.route = "/register") => login'.route = "/register"]_vars

\* What the page does guarantee: right after the click the route is
\* /register.
RegisterNavigates == last.kind = "register" => login.route = "/register"

-----------------------------------------------------------------------------
(* Pending login requests *)

\* C27 (as claimed): at most one login request is pending at any time.
C27_AtMostOneRequestInFlight == Len(login.inflight) <= 1

-----------------------------------------------------------------------------
(* What a login request carries *)

\* The claim's condition on the fields of the login form.
LoginInputValid ==
    /\ EnrollRegex(toUpperCase(login.email))
    /\ Len(login.password) >= 6

\* C28: a step sends a request only when the upper-cased email matches the
\* enrollment pattern and the password has at least 6 characters, and the
\* request's body is then the upper-cased email and the password as typed; a
\* click on Sign in with such input does send it.  Every pending body passes
\* the schema's rules.
C28_RequestOnlyForValidNormalizedInput ==
    /\ [][/\ (login'.sent # login.sent) =>
               /\ LoginInputValid
               /\ login'.sent = login.sent + 1
               /\ login'.inflight =
                     Append(login.inflight,
                            [email |-> toUpperCase(login.email),
                             password |-> login.password])
          /\ (last'.kind = "loginSubmit" /\ LoginInputValid) =>
               login'.sent = login.sent + 1
          /\ (SubmitHandled /\ ~LoginInputValid) =>
               login'.inflight = login.inflight]_vars
    /\ [](\A k \in 1..Len(login.inflight) :
             /\ EnrollRegex(login.inflight[k].email)
             /\ Len(login.inflight[k].password) >= 6)

\* C28 witness: a lower-case enrollment number was submitted and the pending
\* request carries it in upper case.
C28_Witness ==
    /\ last.kind = "loginSubmit"
    /\ login.email = LowerEnrollNo
    /\ login.password = "secret"
    /\ login.inflight # <<>>
    /\ login.inflight[Len(login.inflight)] =
          [email |-> ValidEnrollNo, password |-> "secret"]

-----------------------------------------------------------------------------
(* A cancelled file dialog *)

\* C29: in the form with the preview, a change event of the file input that
\* carries no file leaves the form's profilePicture, the preview and the
\* number of object URLs created as they were.
C29_NoFileChangesNothing ==
    [][(variant = PreviewVariant /\ last'.kind = "file" /\ last'.index = 0)
          => /\ values'.profilePicture = values.profilePicture
             /\ preview' = preview
             /\ objectUrls' = objectUrls]_vars

\* C29 witness: a file was chosen, then the dialog was opened again and
\* cancelled; the picture and its preview are still there.
C29_Witness ==
    /\ variant = PreviewVariant
    /\ last.kind = "file" /\ last.index = 0
    /\ last.prevKind = "file"
    /\ values.profilePicture.kind = "File"
    /\ preview # 0
    /\ objectUrls = 1

-----------------------------------------------------------------------------
(* Validating what validation produced *)

\* The login form with its two inputs typed.
LoginForms ==
    {[LoginIdle EXCEPT !.email = e, !.password = p] :
        e \in LoginCandidates("email"), p \in LoginCandidates("password")}

\* A session with the number inputs of the profile form and the inputs of the
\* login form typed, before any submit.
InitNormalize ==
    /\ variant \in Variants
    /\ \E s \in IdSessions(variant) :
          /\ values = s.doc
          /\ fields = s.rows
          /\ nextId = s.ids + 1
    /\ errors = {}
    /\ isSubmitted = FALSE
    /\ preview = 0
    /\ last = NoEvent
    /\ edits = 0
    /\ objectUrls = 0
    /\ login \in LoginForms

NextNormalize == Submit \/ LoginSubmit

SpecNormalize == InitNormalize /\ [][NextNormalize]_vars

\* C30: a profile document that passes the schema is normalized to a document
\* that passes the schema again and is normalized to itself; the same for
\* the login form and the body made from it.
C30_NormalizationIdempotent ==
    /\ FormSchema(variant, values) = {} =>
          LET normalized == ParsedDocument(variant, values)
          IN  /\ FormSchema(variant, normalized) = {}
              /\ ParsedDocument(variant, normalized) = normalized
    /\ loginSchema(login) = {} =>
          LET body == loginBody(login)
          IN  /\ loginSchema(body) = {}
              /\ loginBody(body) = body

\* C30 witness: a profile document with a number in lower case was accepted
\* and handed on in upper case, and a login form with a lower-case number
\* was sent in upper case.
C30_Witness ==
    /\ OnSubmitCalled
    /\ last.calls[1] # values
    /\ last.calls[1] = ParsedDocument(variant, values)
    /\ login.email = LowerEnrollNo
    /\ login.inflight # <<>>
    /\ login.inflight[1].email = ValidEnrollNo

====
